---- MODULE Spec2Model ----
(***************************************************************************)
(* rx2slices: slice-boundary derivation and Octatrack (.ot) / XML          *)
(* (.slices) metadata encoding, modelled from src/rx2slices.cpp.           *)
(*                                                                         *)
(* Arithmetic.  The program computes frame positions in double precision.  *)
(* The model computes the same quotients exactly over the integers         *)
(* (numerator, denominator) and rounds them as round() / floor(x + 0.5) /  *)
(* a truncating cast do.  bpm = fTempo / 1000.0 is carried as the integer  *)
(* fTempo (milli-bpm).  All quantities of the model are below 2^31, so the *)
(* int -> uint32_t casts of the non-negative values are the identity.      *)
(***************************************************************************)
EXTENDS Integers, Sequences, FiniteSets

\* ---------------------------------------------------------------- bounds
\* Longest marker sequence enumerated over every choice of positions.
MaxShortLen == 2
\* Long marker sequences have 64 .. 64 + MaxExtra markers.
MaxExtra == 2

\* ------------------------------------------------------ program constants
PREVIEW_LATENCY_COMPENSATION == -64
MaxSlices == 64
BufferSize == 832
BatchSize == 64
\* 0xFFFFFFFF: the 32-bit pattern of all ones, written by its signed
\* two's-complement representative; write32BE extracts the same four bytes.
LoopMarker == -1

\* ------------------------------------------------- decoder output (inputs)
SampleRates == {16, 20}
Tempos == {60000, 60030, 120030, 120500}
PPQLengths == {0, 15360, 30720, 61440, 92160}
Positions == {0, 61440, 61441, 92160}
Steps == {900}

RECURSIVE SeqsUpTo(_, _)
SeqsUpTo(S, n) ==
    IF n = 0 THEN {<<>>}
    ELSE LET shorter == SeqsUpTo(S, n - 1)
         IN  shorter \cup {Append(s, x) : s \in {t \in shorter : Len(t) = n - 1}, x \in S}

LongMarkers(n, step) == [k \in 1..n |-> (k - 1) * step]

\* The marker sequences a decoded file may report: any short sequence over
\* Positions (ascending or not), and evenly spaced sequences around the cap.
MarkerSeqs ==
    SeqsUpTo(Positions, MaxShortLen)
      \cup {LongMarkers(MaxSlices + e, st) : e \in 0..MaxExtra, st \in Steps}

\* --------------------------------------------------------- numeric helpers
Min(a, b) == IF a < b THEN a ELSE b
Max(a, b) == IF a > b THEN a ELSE b

\* round(num / den) for num >= 0, den > 0: halves round away from zero,
\* which is floor(x + 0.5) on the non-negative values the program rounds.
Round(num, den) ==
    LET q == num \div den
        r == num % den
    IN  IF 2 * r >= den THEN q + 1 ELSE q

VARIABLES
    info,            \* REXInfo: fSampleRate, fTempo, fPPQLength, fSliceCount
    slicePos,        \* fPPQPos of slice k (REXGetSliceInfo), 1-based
    useOcta,         \* -octa given
    lengthFrames,
    pc,
    framesRendered,
    todo,
    i,               \* loop index of the slice loops
    start,           \* locals of the slice loop body
    end,
    ot,              \* OctatrackMetadata: tempo_val, trim_len, trim_end, slices
    otBuf,           \* result of ot.getBuffer(), <<>> before it is produced
    xml              \* slice elements written to the .slices file

vars == <<info, slicePos, useOcta, lengthFrames, pc, framesRendered, todo,
          i, start, end, ot, otBuf, xml>>

\* exactLen = fSampleRate * 1000 * fPPQLength / (fTempo * 256), rounded.
LengthFrames(inf) ==
    Round(inf.fSampleRate * 1000 * inf.fPPQLength, inf.fTempo * 256)

NoMetadata == [tempo_val |-> 0, trim_len |-> 0, trim_end |-> 0, slices |-> <<>>]

Init ==
    /\ useOcta \in BOOLEAN
    /\ \E sr \in SampleRates, t \in Tempos, len \in PPQLengths :
         \E m \in (IF len = 0 THEN {<<>>} ELSE MarkerSeqs) :
           /\ info = [fSampleRate |-> sr, fTempo |-> t, fPPQLength |-> len,
                      fSliceCount |-> Len(m)]
           /\ slicePos = m
    /\ lengthFrames = LengthFrames(info)
    /\ pc = "render"
    /\ framesRendered = 0
    /\ todo = 0
    /\ i = 0
    /\ start = 0
    /\ end = 0
    /\ ot = NoMetadata
    /\ otBuf = <<>>
    /\ xml = <<>>

\* ------------------------------------------------------------- render loop
\* mutant: always a full batch
RenderTodoFullBatch(total, rendered) == BatchSize

RenderTodo(total, rendered) == Min(BatchSize, total - rendered)

RenderBatch ==
    /\ pc = "render"
    /\ framesRendered < lengthFrames
    /\ todo' = RenderTodo(lengthFrames, framesRendered)
    /\ framesRendered' = framesRendered + todo'
    /\ UNCHANGED <<info, slicePos, useOcta, lengthFrames, pc, i, start, end,
                   ot, otBuf, xml>>

RenderExit ==
    /\ pc = "render"
    /\ ~(framesRendered < lengthFrames)
    /\ pc' = "meta"
    /\ UNCHANGED <<info, slicePos, useOcta, lengthFrames, framesRendered, todo,
                   i, start, end, ot, otBuf, xml>>

\* ------------------------------------------------- slice boundary (main)
\* (int)round(((double)fPPQPos / fPPQLength) * lengthFrames)
SliceFrame(ppqPos, ppqLength, frames) == Round(ppqPos * frames, ppqLength)

\* line 229: start of the slice at marker position ppqPos
StartFrame(ppqPos, ppqLength, frames) ==
    Max(0, SliceFrame(ppqPos, ppqLength, frames) + PREVIEW_LATENCY_COMPENSATION)

\* mutant: the last slice ends at the frame count (exclusive end)
EndFrameExclusive(idx, pos, ppqLength, frames) ==
    IF idx < Len(pos) - 1
    THEN Max(0, SliceFrame(pos[idx + 2], ppqLength, frames)
                  + PREVIEW_LATENCY_COMPENSATION - 1)
    ELSE frames

\* mutant: a slice ends on the next slice's start frame
EndFrameNoGap(idx, pos, ppqLength, frames) ==
    IF idx < Len(pos) - 1
    THEN Max(0, SliceFrame(pos[idx + 2], ppqLength, frames)
                  + PREVIEW_LATENCY_COMPENSATION)
    ELSE frames - 1

\* lines 230-235: end of slice idx (0-based) of the marker sequence pos
EndFrame(idx, pos, ppqLength, frames) ==
    IF idx < Len(pos) - 1
    THEN Max(0, SliceFrame(pos[idx + 2], ppqLength, frames)
                  + PREVIEW_LATENCY_COMPENSATION - 1)
    ELSE frames - 1

\* mutant: no latency compensation in the XML branch
XmlStartFrameNoLatency(ppqPos, ppqLength, frames) ==
    Max(0, SliceFrame(ppqPos, ppqLength, frames))

\* line 252: the XML branch recomputes the start frame
XmlStartFrame(ppqPos, ppqLength, frames) ==
    Max(0, SliceFrame(ppqPos, ppqLength, frames) + PREVIEW_LATENCY_COMPENSATION)

\* fixed << setprecision(6) << (double)start / fSampleRate, as the integer
\* number of microseconds the six printed decimals denote
FixedSeconds(frame, sampleRate) == Round(frame * 1000000, sampleRate)

\* ------------------------------------------------------ OctatrackMetadata
\* (uint32_t)(bpm * 24.0): the cast truncates
TempoVal(bpm1000) == (bpm1000 * 24) \div 1000

\* floor(bpm * totalFrames / (sampleRate * 60.0 * 4.0) + 0.5)
Bars(bpm1000, sampleRate, totalFrames) ==
    Round(bpm1000 * totalFrames, 1000 * sampleRate * 60 * 4)

\* mutant: the bar count is truncated, not rounded
TrimLenTruncated(bpm1000, sampleRate, totalFrames) ==
    ((bpm1000 * totalFrames) \div (1000 * sampleRate * 60 * 4)) * 25

TrimLen(bpm1000, sampleRate, totalFrames) ==
    Bars(bpm1000, sampleRate, totalFrames) * 25

OctatrackMetadata(bpm1000, sampleRate, totalFrames) ==
    [tempo_val |-> TempoVal(bpm1000),
     trim_len  |-> TrimLen(bpm1000, sampleRate, totalFrames),
     trim_end  |-> totalFrames,
     slices    |-> <<>>]

\* mutant: off-by-one capacity test
addSliceOffByOne(m, s, e) ==
    IF Len(m.slices) <= MaxSlices
    THEN [m EXCEPT !.slices = Append(@, [start |-> s, end |-> e])]
    ELSE m

addSlice(m, s, e) ==
    IF Len(m.slices) < MaxSlices
    THEN [m EXCEPT !.slices = Append(@, [start |-> s, end |-> e])]
    ELSE m

\* A vector<uint8_t> is the sequence of its bytes: the byte at offset k of
\* buffer b is b[k + 1].
At(b, k) == b[k + 1]

\* b[pos] = v
Put(b, pos, v) == [b EXCEPT ![pos + 1] = v]

\* mutant: little-endian byte order
write32LE(b, pos, val) ==
    [b EXCEPT ![pos + 4] = (val \div 16777216) % 256,
              ![pos + 3] = (val \div 65536) % 256,
              ![pos + 2] = (val \div 256) % 256,
              ![pos + 1] = val % 256]

write32BE(b, pos, val) ==
    [b EXCEPT ![pos + 1] = (val \div 16777216) % 256,
              ![pos + 2] = (val \div 65536) % 256,
              ![pos + 3] = (val \div 256) % 256,
              ![pos + 4] = val % 256]

write16BE(b, pos, val) ==
    [b EXCEPT ![pos + 1] = (val \div 256) % 256,
              ![pos + 2] = val % 256]

Header == <<70, 79, 82, 77, 0, 0, 0, 0, 68, 80, 83, 49, 83, 77, 80, 65>>
Unknown == <<0, 0, 0, 0, 0, 2, 0>>

\* for (i = 0; i < n; ++i) b[pos + i] = bytes[i]
CopyBytes(b, pos, bytes) ==
    SubSeq(b, 1, pos) \o bytes \o SubSeq(b, pos + Len(bytes) + 1, Len(b))

TableOffset == 58
SlotSize == 12
SlotCount == 64

\* lines 78-83: iteration k of the slice-table loop, as the 12 bytes it
\* leaves at offset 58 + 12 k (the iterations write disjoint windows of b)
SlotBytes(b, slices, k) ==
    LET offset == TableOffset + k * SlotSize
        window == SubSeq(b, offset + 1, offset + SlotSize)
    IN  IF k < Len(slices)
        THEN write32BE(
               write32BE(
                 write32BE(window, 0, slices[k + 1].start),
                 4, slices[k + 1].end),
               8, LoopMarker)
        ELSE window

\* lines 77-84: the loop over the SlotCount slots
WriteSlices(b, slices) ==
    [j \in 1..Len(b) |->
        LET rel == (j - 1) - TableOffset
        IN  IF rel >= 0 /\ rel < SlotCount * SlotSize
            THEN SlotBytes(b, slices, rel \div SlotSize)[(rel % SlotSize) + 1]
            ELSE b[j]] \o <<>>

ChecksumFirst == 16
ChecksumLast == 829

\* lines 86-87: for (k = lo; k <= hi; ++k) checksum += buffer[k].  The
\* uint16_t accumulator wraps at every addition, so the loop leaves the sum
\* of the bytes modulo 65536; addition modulo 65536 is associative, and the
\* range is summed by halves to keep the evaluation shallow.
RECURSIVE ChecksumLoop(_, _, _)
ChecksumLoop(b, lo, hi) ==
    IF lo > hi THEN 0
    ELSE IF lo = hi THEN At(b, lo) % 65536
    ELSE LET mid == (lo + hi) \div 2
         IN  (ChecksumLoop(b, lo, mid) + ChecksumLoop(b, mid + 1, hi)) % 65536

\* mutant: the sum stops before the slice-count field
ChecksumSkipsCount(b) == ChecksumLoop(b, ChecksumFirst, ChecksumLast - 4)

Checksum(b) == ChecksumLoop(b, ChecksumFirst, ChecksumLast)

getBuffer(m) ==
    LET b0  == [k \in 1..BufferSize |-> 0] \o <<>>
        b1  == CopyBytes(b0, 0, Header)
        b2  == CopyBytes(b1, 16, Unknown)
        b3  == write32BE(b2, 23, m.tempo_val)
        b4  == write32BE(b3, 27, m.trim_len)
        b5  == write32BE(b4, 31, m.trim_len)
        b6  == write32BE(b5, 35, 0)
        b7  == write32BE(b6, 39, 0)
        b8  == write16BE(b7, 43, 48)
        b9  == Put(b8, 45, 255)
        b10 == write32BE(b9, 46, 0)
        b11 == write32BE(b10, 50, m.trim_end)
        b12 == write32BE(b11, 54, 0)
        b13 == WriteSlices(b12, m.slices)
        b14 == write32BE(b13, 826, Len(m.slices))
    IN  write16BE(b14, 830, Checksum(b14))

\* ------------------------------------------------------- metadata (main)
\* line 225
Construct ==
    /\ pc = "meta"
    /\ useOcta
    /\ ot' = OctatrackMetadata(info.fTempo, info.fSampleRate, lengthFrames)
    /\ i' = 0
    /\ pc' = "octa"
    /\ UNCHANGED <<info, slicePos, useOcta, lengthFrames, framesRendered, todo,
                   start, end, otBuf, xml>>

\* lines 226-237: one iteration of the slice loop
OctaSlice ==
    /\ pc = "octa"
    /\ i < info.fSliceCount
    /\ start' = StartFrame(slicePos[i + 1], info.fPPQLength, lengthFrames)
    /\ end' = EndFrame(i, slicePos, info.fPPQLength, lengthFrames)
    /\ ot' = addSlice(ot, start', end')
    /\ i' = i + 1
    /\ UNCHANGED <<info, slicePos, useOcta, lengthFrames, pc, framesRendered,
                   todo, otBuf, xml>>

\* lines 238-243
OctaWrite ==
    /\ pc = "octa"
    /\ ~(i < info.fSliceCount)
    /\ otBuf' = getBuffer(ot)
    /\ pc' = "done"
    /\ UNCHANGED <<info, slicePos, useOcta, lengthFrames, framesRendered, todo,
                   i, start, end, ot, xml>>

\* lines 245-248
XmlOpen ==
    /\ pc = "meta"
    /\ ~useOcta
    /\ xml' = <<>>
    /\ i' = 0
    /\ pc' = "xml"
    /\ UNCHANGED <<info, slicePos, useOcta, lengthFrames, framesRendered, todo,
                   start, end, ot, otBuf>>

\* lines 249-254: one slice element
XmlSlice ==
    /\ pc = "xml"
    /\ i < info.fSliceCount
    /\ start' = XmlStartFrame(slicePos[i + 1], info.fPPQLength, lengthFrames)
    /\ xml' = Append(xml, [start |-> start',
                           text  |-> FixedSeconds(start', info.fSampleRate)])
    /\ i' = i + 1
    /\ UNCHANGED <<info, slicePos, useOcta, lengthFrames, pc, framesRendered,
                   todo, end, ot, otBuf>>

\* lines 255-256
XmlClose ==
    /\ pc = "xml"
    /\ ~(i < info.fSliceCount)
    /\ pc' = "done"
    /\ UNCHANGED <<info, slicePos, useOcta, lengthFrames, framesRendered, todo,
                   i, start, end, ot, otBuf, xml>>

Next ==
    \/ RenderBatch
    \/ RenderExit
    \/ Construct
    \/ OctaSlice
    \/ OctaWrite
    \/ XmlOpen
    \/ XmlSlice
    \/ XmlClose

Spec == Init /\ [][Next]_vars

\* The program is one thread that runs to completion: an enabled step of
\* the render loop (a batch, or leaving the loop) is eventually taken.
FairSpec == Spec /\ WF_vars(RenderBatch) /\ WF_vars(RenderExit)

\* ================================================================ claims
\* Helpers of the properties below (not part of the program).
N == info.fSliceCount

\* Marker positions strictly increase with the index.
Ascending(pos) ==
    \A a \in 1..Len(pos), b \in 1..Len(pos) : a < b => pos[a] < pos[b]

\* Every marker position lies within 0..unit.
WithinUnit(pos, unit) == \A k \in 1..Len(pos) : 0 <= pos[k] /\ pos[k] <= unit

\* Nearest integer to num / den (num >= 0, den > 0), stated as floor(x + 1/2).
Nearest(num, den) == (2 * num + den) \div (2 * den)

\* round(p / unit * totalFrames) of marker k (1-based)
MarkerFrame(k) == Nearest(slicePos[k] * lengthFrames, info.fPPQLength)

InOcta == useOcta /\ pc \in {"octa", "done"}
OctaDone == useOcta /\ pc = "done"

\* byte j (0 = most significant) of the 4-byte big-endian encoding of v
BEByte(v, j) ==
    CASE j = 0 -> (v \div 16777216) % 256
      [] j = 1 -> (v \div 65536) % 256
      [] j = 2 -> (v \div 256) % 256
      [] j = 3 -> v % 256

\* the 4 bytes of buffer b at offset pos are v, big-endian
HoldsBE32(b, pos, v) == \A j \in 0..3 : At(b, pos + j) = BEByte(v, j)

\* C1: for totalFrames > 0 and strictly ascending marker positions within
\* 0..unit, every derived slice boundary satisfies 0 <= start <= end.
C1_StartLeEnd ==
    (InOcta /\ lengthFrames > 0 /\ Ascending(slicePos)
        /\ WithinUnit(slicePos, info.fPPQLength))
    => /\ i > 0 => (0 <= start /\ start <= end)
       /\ \A k \in 1..Len(ot.slices) :
            0 <= ot.slices[k].start /\ ot.slices[k].start <= ot.slices[k].end

\* C2: once the slice loop has handled the last marker (any number of
\* markers, any positions, totalFrames > 0) the boundary it computed has
\* end = totalFrames - 1, and so has the stored last slice when it is kept.
C2_FinalBoundary ==
    (InOcta /\ N > 0 /\ i = N /\ lengthFrames > 0)
    => /\ end = lengthFrames - 1
       /\ N <= MaxSlices => ot.slices[N].end = lengthFrames - 1

C2_Witness ==
    /\ InOcta /\ N > 1 /\ i = N
    /\ slicePos[N] < slicePos[1]
    /\ start > 0
    /\ end = lengthFrames - 1

\* C3: consecutive stored boundaries are contiguous, end_k + 1 = start_(k+1),
\* whenever round(p_(k+1) / unit * totalFrames) - 64 - 1 >= 0 (no clamping).
C3_Contiguity ==
    InOcta =>
      \A k \in 1..(Len(ot.slices) - 1) :
        (MarkerFrame(k + 1) - 64 - 1 >= 0)
          => ot.slices[k].end + 1 = ot.slices[k + 1].start

C3_Witness ==
    /\ InOcta
    /\ \E k \in 1..(Len(ot.slices) - 1) :
         /\ MarkerFrame(k + 1) - 64 - 1 >= 0
         /\ ot.slices[k].end + 1 = ot.slices[k + 1].start
         /\ ot.slices[k + 1].start > 0

\* the (start, end) pair the slice loop hands to addSlice for marker k
Supplied(k) ==
    [start |-> StartFrame(slicePos[k], info.fPPQLength, lengthFrames),
     end   |-> EndFrame(k - 1, slicePos, info.fPPQLength, lengthFrames)]

\* C4: after i addSlice calls the stored list is exactly the first
\* min(i, 64) supplied pairs, in order (so a call made with 64 stored changes
\* nothing); in the produced buffer the count field at offset 826 is
\* min(N, 64), and for N > 64 slot k of the table holds supplied pair k + 1
\* for each of the first 64 and nothing else follows the table but the count.
C4_Cap ==
    InOcta =>
      /\ ot.slices = [k \in 1..Min(i, 64) |-> Supplied(k)]
      /\ pc = "done" =>
           /\ HoldsBE32(otBuf, 826, Min(N, 64))
           /\ N > 64 =>
                /\ At(otBuf, 829) = 64
                /\ \A k \in 0..63 :
                     /\ HoldsBE32(otBuf, 58 + 12 * k, Supplied(k + 1).start)
                     /\ HoldsBE32(otBuf, 58 + 12 * k + 4, Supplied(k + 1).end)

C4_Witness ==
    /\ OctaDone /\ N > 64 /\ i = N
    /\ Len(ot.slices) = 64
    /\ Supplied(65) # Supplied(64)

\* plain (unwrapped) sum of the bytes of b at offsets lo..hi
RECURSIVE SumBytes(_, _, _)
SumBytes(b, lo, hi) ==
    IF lo > hi THEN 0
    ELSE IF lo = hi THEN At(b, lo)
    ELSE LET mid == (lo + hi) \div 2
         IN  SumBytes(b, lo, mid) + SumBytes(b, mid + 1, hi)

\* C5: in every produced buffer the big-endian 16-bit value at offsets
\* 830-831 equals the sum of the bytes at offsets 16..829 modulo 65536.
C5_Checksum ==
    OctaDone =>
      At(otBuf, 830) * 256 + At(otBuf, 831) = SumBytes(otBuf, 16, 829) % 65536

\* a buffer whose byte sum exceeds 65535, so that the checksum has wrapped
C5_Witness ==
    /\ OctaDone
    /\ SumBytes(otBuf, 16, 829) > 65535
    /\ At(otBuf, 830) * 256 + At(otBuf, 831) = SumBytes(otBuf, 16, 829) - 65536

\* C6: the tempo field equals round(bpm * 24), the nearest integer to
\* bpm * 24, for every tempo, where bpm = fTempo / 1000.
C6_TempoRounded ==
    InOcta =>
      /\ ot.tempo_val = Nearest(info.fTempo * 24, 1000)
      /\ pc = "done" => HoldsBE32(otBuf, 23, Nearest(info.fTempo * 24, 1000))

\* C7: trimLen = 25 * round(bpm * totalFrames / (sampleRate * 240)) with
\* halves rounded up; the same value is written big-endian at offsets 27 and
\* 31, and trimEnd = totalFrames is written at offset 50.
C7_Trim ==
    InOcta =>
      LET bars == Nearest(info.fTempo * lengthFrames, 240000 * info.fSampleRate)
      IN  /\ ot.trim_len = 25 * bars
          /\ ot.trim_end = lengthFrames
          /\ pc = "done" =>
               /\ HoldsBE32(otBuf, 27, 25 * bars)
               /\ HoldsBE32(otBuf, 31, 25 * bars)
               /\ HoldsBE32(otBuf, 50, lengthFrames)

\* a render of exactly half a bar more than a whole one: bars rounds up to 2
C7_Witness ==
    /\ OctaDone
    /\ 2 * info.fTempo * lengthFrames = 3 * 240000 * info.fSampleRate
    /\ ot.trim_len = 50
    /\ At(otBuf, 30) = 50 /\ At(otBuf, 34) = 50

\* C8: the buffer is exactly 832 bytes; slot k < n of the table (offset
\* 58 + 12 k) holds start_k, end_k big-endian and FF FF FF FF; every byte of
\* every slot k >= n is zero; the 4 bytes at offset 826 encode n big-endian.
C8_Layout ==
    OctaDone =>
      LET n == Len(ot.slices)
      IN  /\ Len(otBuf) = 832
          /\ n \in 0..64
          /\ \A k \in 0..63 :
               IF k < n
               THEN /\ HoldsBE32(otBuf, 58 + 12 * k, ot.slices[k + 1].start)
                    /\ HoldsBE32(otBuf, 58 + 12 * k + 4, ot.slices[k + 1].end)
                    /\ \A j \in 8..11 : At(otBuf, 58 + 12 * k + j) = 255
               ELSE \A j \in 0..11 : At(otBuf, 58 + 12 * k + j) = 0
          /\ At(otBuf, 826) = 0 /\ At(otBuf, 827) = 0 /\ At(otBuf, 828) = 0
          /\ At(otBuf, 829) = n

\* a partly filled table: populated slots followed by empty ones
C8_Witness ==
    /\ OctaDone
    /\ Len(ot.slices) \in 1..63
    /\ ot.slices[1].start > 0
    /\ At(otBuf, 58 + 12 * Len(ot.slices)) = 0

InXml == ~useOcta /\ pc \in {"xml", "done"}

\* C9: the XML output holds one slice element per marker handled, N in all
\* with no cap, in marker order; element k carries the start frame
\* max(0, round(p_k / unit * totalFrames) - 64), the start the binary path
\* computes for the same marker; for ascending markers the emitted starts
\* are non-decreasing.
C9_Xml ==
    InXml =>
      /\ Len(xml) = i
      /\ pc = "done" => Len(xml) = N
      /\ \A k \in 1..Len(xml) :
           /\ xml[k].start = Max(0, MarkerFrame(k) - 64)
           /\ xml[k].start = Supplied(k).start
      /\ Ascending(slicePos) =>
           \A k \in 1..(Len(xml) - 1) :
             /\ xml[k].start <= xml[k + 1].start
             /\ xml[k].text <= xml[k + 1].text

C9_Witness ==
    /\ InXml /\ pc = "done"
    /\ N > 64 /\ Len(xml) = N
    /\ Ascending(slicePos)
    /\ xml[1].start = 0 /\ xml[N].start > 0

RenderInv ==
    /\ 0 <= framesRendered /\ framesRendered <= lengthFrames
    /\ framesRendered > 0 => todo \in 1..64
    /\ pc # "render" => framesRendered = lengthFrames

\* C10: the render loop terminates; 0 <= framesRendered <= lengthFrames in
\* every state; every batch requested is of 1..64 frames and no more than
\* the frames that remain; on exit framesRendered = lengthFrames.
C10_RenderLoop ==
    /\ []RenderInv
    /\ [][RenderBatch => (todo' \in 1..64 /\ todo' <= lengthFrames - framesRendered)]_vars
    /\ <>(pc # "render")

\* the loop has ended after a full batch and a partial one
C10_Witness ==
    /\ pc # "render"
    /\ lengthFrames > 64
    /\ framesRendered = lengthFrames
    /\ todo \in 1..63
====
